---- MODULE Spec2Model ----
(***************************************************************************)
(* RepuCycle front end: the App shell (Navbar, Routes, Footer), the three  *)
(* pages (Home, Quiz, Challenge) and the browser events that drive them.   *)
(* One action per user event; each action is the whole event: the handler, *)
(* the browser's default action for the event, and the re-render.          *)
(***************************************************************************)
EXTENDS Naturals, Sequences, FiniteSets

\* ---- bounds ----
MaxAnswers == 3      \* change events modelled per mount of the quiz
MaxLog == 2          \* console.log lines modelled
MaxMounts == 2       \* page-instance identities, recycled modulo this

Range(s) == {s[i] : i \in DOMAIN s}

IsPrefix(s, t) == Len(s) <= Len(t) /\ SubSeq(t, 1, Len(s)) = s

\* ---- locations ----
\* URLs the browser can be at: the three routes and two that no route names.
Paths == {"/", "/quiz", "/challenge", "/about", "/quiz/1"}

\* A pathname split at "/" (what the router's matcher compares).
Segments(p) ==
    CASE p = "/" -> << >>
      [] p = "/quiz" -> <<"quiz">>
      [] p = "/challenge" -> <<"challenge">>
      [] p = "/about" -> <<"about">>
      [] p = "/quiz/1" -> <<"quiz", "1">>

\* Values the quiz's text input can hold.
Values == {"", "g", "gl"}

Views == {"Home", "Quiz", "Challenge"}

\* ---- App.jsx ----
RouteTableSwapped ==
    << [path |-> "/", element |-> "Home"],
       [path |-> "/quiz", element |-> "Challenge"],
       [path |-> "/challenge", element |-> "Quiz"] >>

\* <Routes> children, in declared order.
RouteTable ==
    << [path |-> "/", element |-> "Home"],
       [path |-> "/quiz", element |-> "Quiz"],
       [path |-> "/challenge", element |-> "Challenge"] >>

PathMatchesPrefix(pattern, p) == IsPrefix(Segments(pattern), Segments(p))

\* A <Route path=...> matches the whole pathname, not a prefix of it.
PathMatches(pattern, p) == Segments(pattern) = Segments(p)

\* <Routes> renders the element of the first matching route, or nothing.
RoutesRender(p) ==
    LET m == {i \in DOMAIN RouteTable : PathMatches(RouteTable[i].path, p)}
    IN  IF m = {} THEN << >>
        ELSE << RouteTable[CHOOSE i \in m : \A j \in m : i <= j].element >>

AppRenderBare(p) ==
    IF RoutesRender(p) = << >> THEN << >>
    ELSE <<"Navbar">> \o RoutesRender(p) \o <<"Footer">>

\* The children of <div className="App"> at pathname p.
AppRender(p) == <<"Navbar">> \o RoutesRender(p) \o <<"Footer">>

\* ---- Navbar ----
\* The `to` of the three <Link>s, in order.
NavLinks == <<"/", "/quiz", "/challenge">>

\* ---- headings of the pages ----
Heading(view) ==
    CASE view = "Home" -> "Welcome to RepuCycle"
      [] view = "Quiz" -> "Waste Management Quiz"
      [] view = "Challenge" -> "Challenges"

\* ---- Challenge ----
InitialChallengesReversed ==
    << [id |-> 2, description |-> "Collect and segregate organic waste", reward |-> 30],
       [id |-> 1, description |-> "Recycle 10kg of plastic", reward |-> 50] >>

\* The argument of useState in Challenge.
InitialChallenges ==
    << [id |-> 1, description |-> "Recycle 10kg of plastic", reward |-> 50],
       [id |-> 2, description |-> "Collect and segregate organic waste", reward |-> 30] >>

\* challenges.map(...): one <li> per challenge, keyed by id, with its button.
ChallengeItems(cs) ==
    [i \in DOMAIN cs |->
        [key |-> cs[i].id, description |-> cs[i].description,
         reward |-> cs[i].reward, button |-> "Accept Challenge"]]

\* ---- component state ----
useStateKept(before, after, initial, current) ==
    IF after /\ ~before /\ current = << >> THEN initial ELSE current

\* A useState cell across a render: created with its initial value when the
\* component mounts, kept while it stays mounted, gone when it unmounts.
useState(before, after, initial, current) ==
    IF after THEN (IF before THEN current ELSE initial) ELSE << >>

\* ---- Quiz ----
onChangeReplace(answers, value) == <<value>>

\* (e) => setAnswers([...answers, e.target.value])
onChange(answers, value) == Append(answers, value)

QuizRenderStale(state, prev) == prev

\* The `answers` that the handlers created by a render of Quiz close over:
\* the state of that render.
QuizRender(state, prev) == state

\* console.log("Quiz submitted with answers: ", answers)
submitQuiz(log, answers) == Append(log, answers)

\* ---- buttons ----
HasFormOwnerAll(label) == TRUE

\* A <button> without a type is a submit button; it submits only when it
\* sits inside a <form>.  Only "Submit Quiz" does.
HasFormOwner(label) == label = "Submit Quiz"

\* The buttons a rendered tree shows.
Buttons(t) ==
    (IF "Home" \in Range(t) THEN {"Get Started"} ELSE {})
    \cup (IF "Quiz" \in Range(t) THEN {"Submit Quiz"} ELSE {})
    \cup (IF "Challenge" \in Range(t) THEN {"Accept Challenge"} ELSE {})

VARIABLES
    path,        \* window.location.pathname
    tree,        \* children of div.App as last rendered
    mountId,     \* identity of the page instance rendered by <Routes>
    answers,     \* Quiz: the useState cell
    closure,     \* Quiz: the `answers` its current handlers close over
    field,       \* Quiz: value of the (uncontrolled) text input
    typed,       \* history: field values at the change events since mount
    challenges,  \* Challenge: the useState cell
    console,     \* lines printed by console.log
    lastEvent,   \* history: the event handled last
    discarded    \* history: a link click unmounted Quiz with answers in it

vars == <<path, tree, mountId, answers, closure, field, typed, challenges,
          console, lastEvent, discarded>>

Mounted(t, c) == c \in Range(t)
QuizMounted == Mounted(tree, "Quiz")
ChallengeMounted == Mounted(tree, "Challenge")
HomeMounted == Mounted(tree, "Home")
ViewsMounted == Range(tree) \cap Views
Headings == {Heading(v) : v \in ViewsMounted}

NextMount == (mountId + 1) % MaxMounts

Event(type, arg, from) == [type |-> type, arg |-> arg, from |-> from]

\* The App constructed in a fresh document at pathname p.
Init ==
    /\ path \in Paths
    /\ tree = AppRender(path)
    /\ mountId = 0
    /\ answers = << >>
    /\ closure = << >>
    /\ field = ""
    /\ typed = << >>
    /\ challenges = useState(FALSE, Mounted(tree, "Challenge"), InitialChallenges, << >>)
    /\ console = << >>
    /\ lastEvent = Event("load", path, path)
    /\ discarded = FALSE

\* A document load at pathname p: every component is constructed anew.
Boot(p) ==
    /\ path' = p
    /\ tree' = AppRender(p)
    /\ mountId' = NextMount
    /\ answers' = useState(FALSE, Mounted(tree', "Quiz"), << >>, answers)
    /\ closure' = QuizRender(answers', << >>)
    /\ field' = ""
    /\ typed' = << >>
    /\ challenges' = useState(FALSE, Mounted(tree', "Challenge"), InitialChallenges, challenges)
    /\ discarded' = FALSE

\* The user opens a URL of the application (address bar, reload, bookmark).
Load(p) ==
    /\ p \in Paths
    /\ Boot(p)
    /\ console' = console
    /\ lastEvent' = Event("load", p, path)

\* Click on a <Link to=...> of the Navbar: history push, then <Routes>
\* re-renders for the new location.
ClickLink(to) ==
    /\ Mounted(tree, "Navbar")
    /\ to \in Range(NavLinks)
    /\ path' = to
    /\ tree' = AppRender(to)
    /\ mountId' = IF tree' = tree THEN mountId ELSE NextMount
    /\ answers' = useState(QuizMounted, Mounted(tree', "Quiz"), << >>, answers)
    /\ closure' = QuizRender(answers', closure)
    /\ field' = IF QuizMounted /\ Mounted(tree', "Quiz") THEN field ELSE ""
    /\ typed' = IF QuizMounted /\ Mounted(tree', "Quiz") THEN typed ELSE << >>
    /\ challenges' = useState(ChallengeMounted, Mounted(tree', "Challenge"),
                              InitialChallenges, challenges)
    /\ console' = console
    /\ lastEvent' = Event("link", to, path)
    /\ discarded' = IF QuizMounted /\ ~Mounted(tree', "Quiz")
                    THEN answers # << >> ELSE discarded

\* A change event on the quiz's text input: the field takes a new value v,
\* onChange runs with the handlers' `answers`, and Quiz re-renders.
Change(v) ==
    /\ QuizMounted
    /\ v \in Values \ {field}
    /\ Len(typed) < MaxAnswers
    /\ field' = v
    /\ typed' = Append(typed, v)
    /\ answers' = onChange(closure, v)
    /\ closure' = QuizRender(answers', closure)
    /\ lastEvent' = Event("change", v, path)
    /\ UNCHANGED <<path, tree, mountId, challenges, console, discarded>>

\* Submission of the form that owns the clicked button: the form's onSubmit
\* runs (only Quiz's form has one); no handler calls preventDefault, so the
\* browser then submits the form: a GET of the document's own URL (the input
\* has no name, so the query is empty), that is, a fresh document load.
FormSubmit ==
    /\ console' = IF QuizMounted THEN submitQuiz(console, closure) ELSE console
    /\ Boot(path)

\* A click on a rendered button.  None of the buttons has an onClick.
Click(label) ==
    /\ label \in Buttons(tree)
    /\ label = "Submit Quiz" => Len(console) < MaxLog
    /\ lastEvent' = Event("click", label, path)
    /\ IF HasFormOwner(label)
       THEN FormSubmit
       ELSE UNCHANGED <<path, tree, mountId, answers, closure, field, typed,
                        challenges, console, discarded>>

ClickGetStarted == Click("Get Started")
ClickAcceptChallenge == Click("Accept Challenge")
ClickSubmitQuiz == Click("Submit Quiz")

Next ==
    \/ \E p \in Paths : Load(p)
    \/ \E to \in Range(NavLinks) : ClickLink(to)
    \/ \E v \in Values : Change(v)
    \/ ClickGetStarted
    \/ ClickAcceptChallenge
    \/ ClickSubmitQuiz

Spec == Init /\ [][Next]_vars

\* ------------------------------------------------------------------------
\* Properties
\* ------------------------------------------------------------------------
IsClick(ev, label) == ev.type = "click" /\ ev.arg = label

\* C1: submitting the quiz form keeps the route at /quiz, keeps the same
\* Quiz instance mounted (no reload, no remount) and raises no error.
\* (No handler contains a statement that can throw; the route and the
\* instance are what the step can change.)
C1_SubmitKeepsQuizInstance ==
    [][ (QuizMounted /\ IsClick(lastEvent', "Submit Quiz"))
          => (path' = "/quiz" /\ QuizMounted' /\ mountId' = mountId) ]_vars

\* C2: while Quiz stays mounted, the answer sequence is exactly the field
\* values of the change events since mount, in event order: n entries after
\* n change events, the last one being the field's current value.
C2_AnswersAreTheChangeEvents ==
    QuizMounted =>
        /\ answers = typed
        /\ Len(answers) = Len(typed)
        /\ (answers # << >> => answers[Len(answers)] = field)

C2_Witness ==
    /\ QuizMounted
    /\ lastEvent.type = "change"
    /\ Len(typed) = 3

\* C3: at / the Home view and its heading are rendered, at /quiz the Quiz
\* view and its heading, at /challenge the Challenge view and its heading,
\* after any sequence of navigations.
C3_RouteRendersItsView ==
    /\ path = "/" => (ViewsMounted = {"Home"} /\ Headings = {"Welcome to RepuCycle"})
    /\ path = "/quiz" => (ViewsMounted = {"Quiz"} /\ Headings = {"Waste Management Quiz"})
    /\ path = "/challenge" => (ViewsMounted = {"Challenge"} /\ Headings = {"Challenges"})

C3_Witness ==
    /\ lastEvent.type = "link"
    /\ lastEvent.from = "/quiz"
    /\ path = "/challenge"
    /\ Headings = {"Challenges"}

\* C4: whenever the Challenge view is mounted its list is the two literal
\* challenges in declared order, rendered as exactly two items; nothing
\* mutates, extends, shrinks or reorders it.
C4_ChallengesFixed ==
    ChallengeMounted =>
        /\ challenges =
             << [id |-> 1, description |-> "Recycle 10kg of plastic", reward |-> 50],
                [id |-> 2, description |-> "Collect and segregate organic waste", reward |-> 30] >>
        /\ Len(ChallengeItems(challenges)) = 2
        /\ ChallengeItems(challenges)[1].key = 1
        /\ ChallengeItems(challenges)[2].key = 2

C4_Witness ==
    /\ ChallengeMounted
    /\ IsClick(lastEvent, "Accept Challenge")
    /\ mountId # 0

\* C5: a click on "Accept Challenge" or on "Get Started" changes neither the
\* route, nor the mounted view (nor its instance), nor the challenge list,
\* nor the console output.
C5_InertButtons ==
    [][ (IsClick(lastEvent', "Accept Challenge") \/ IsClick(lastEvent', "Get Started"))
          => UNCHANGED <<path, tree, mountId, challenges, console, answers, field>> ]_vars

C5_Witness ==
    /\ IsClick(lastEvent, "Get Started")
    /\ HomeMounted
    /\ console # << >>

\* C6: a quiz submit only prints: the printed value is the sequence built
\* from the change events since mount, and the answer sequence (and the
\* field) are left as they were.
C6_SubmitOnlyPrints ==
    [][ (QuizMounted /\ IsClick(lastEvent', "Submit Quiz"))
          => (/\ console' = Append(console, typed)
              /\ answers' = answers
              /\ field' = field) ]_vars

\* C7: the answer sequence does not survive leaving the quiz: no answers
\* exist while Quiz is unmounted, and on arriving at /quiz by a link from
\* another page the sequence (and the field) are empty.
C7_AnswersDiscardedOnLeave ==
    /\ ~QuizMounted => (answers = << >> /\ closure = << >> /\ field = "")
    /\ (lastEvent.type = "link" /\ lastEvent.from # "/quiz" /\ path = "/quiz")
         => (answers = << >> /\ typed = << >> /\ field = "")

C7_Witness ==
    /\ discarded
    /\ lastEvent.type = "link"
    /\ lastEvent.from \in {"/", "/challenge"}
    /\ path = "/quiz"
    /\ answers = << >>

\* C8: every event is handled to completion, re-render included, before the
\* next one: between events the handlers of Quiz close over the current
\* state, so each change event appends to a snapshot holding all earlier
\* entries and none is lost or overwritten.
C8_HandlersSeeCurrentState ==
    /\ closure = answers
    /\ Len(closure) = Len(typed)
    /\ \A i \in DOMAIN typed : i \in DOMAIN answers /\ answers[i] = typed[i]

C8_Witness ==
    /\ lastEvent.type = "change"
    /\ Len(typed) = 2
    /\ answers = <<"g", "gl">>

\* C9: the Navbar and the Footer are rendered in every state; the Navbar has
\* exactly the three links /, /quiz, /challenge, and from every state one
\* link click mounts any of the three views.
C9_ShellPersistent ==
    /\ Mounted(tree, "Navbar")
    /\ Mounted(tree, "Footer")
    /\ tree[1] = "Navbar"
    /\ tree[Len(tree)] = "Footer"
    /\ Range(NavLinks) = {"/", "/quiz", "/challenge"}
    /\ Len(NavLinks) = 3
    /\ \A v \in Views : \E to \in Range(NavLinks) :
          ENABLED (ClickLink(to) /\ ViewsMounted' = {v})

C9_Witness ==
    /\ path = "/about"
    /\ lastEvent.type = "load"
    /\ lastEvent.from = "/challenge"
    /\ tree = <<"Navbar", "Footer">>

\* C10: at most one view is mounted; exactly one at /, /quiz and
\* /challenge; none (only Navbar and Footer) at any other path.
C10_AtMostOneView ==
    /\ Cardinality(ViewsMounted) <= 1
    /\ Len(tree) <= 3
    /\ path \in {"/", "/quiz", "/challenge"} => Cardinality(ViewsMounted) = 1
    /\ path \notin {"/", "/quiz", "/challenge"} =>
          (ViewsMounted = {} /\ tree = <<"Navbar", "Footer">>)

C10_Witness ==
    /\ path = "/quiz/1"
    /\ ViewsMounted = {}
    /\ lastEvent.from = "/quiz"

====
